---- MODULE Spec2Model ----
(***************************************************************************)
(* container-tester: the per-profile pipeline (generate -> build -> run -> *)
(* cleanup) and the batch runner of src/container_tester/app.py, with the  *)
(* container engine and the filesystem as nondeterministic collaborators.  *)
(***************************************************************************)
EXTENDS Integers, Sequences, FiniteSets, TLC

VARIABLES
    entry,        \* "run_config" or "test_container": the pipeline that was called
    config_list,  \* the profiles handed to the pipeline
    clean,        \* the clean flag
    pc,           \* position: start, generate, build, run, cleanup, done, exited
    idx,          \* index of the profile being processed (enumerate's i, 1-based)
    files,        \* tags t for which the file Dockerfile.<t> exists
    images,       \* names of the images present on the engine
    containers,   \* containers present on the engine: [name, id]
    clock,        \* int(time.time())
    nextId,       \* next container id the engine hands out
    dockerfile,   \* docker_info["dockerfile"] of the current profile
    image,        \* docker_info["image"] of the current profile
    container,    \* docker_info["container"] of the current profile
    info_list,    \* results appended so far
    ret,          \* the value returned by the pipeline (meaningful when pc = "done")
    log,          \* engine/filesystem calls issued for the current profile, in order
    escaped,      \* history: the stage whose exception or exit left the pipeline
    reapErrs,     \* history: removal calls of the current profile that met a fault
    reachable,    \* history: whether docker.from_env() reached the engine
    call          \* the last direct call of an exported function and its outcome

vars == << entry, config_list, clean, pc, idx, files, images, containers, clock,
           nextId, dockerfile, image, container, info_list, ret, log, escaped,
           reapErrs, reachable, call >>

(* ------------------------------ bounds -------------------------------- *)
MaxProfiles == 2
MaxClock == 1

(* ------------------------------ inputs -------------------------------- *)
\* DockerConfig profiles (image_tag, os_name). A list may name the same
\* image_tag twice, as config.py's list does (alpine_3_18).
ProfileSet ==
    { [image_tag |-> "ta", os_name |-> "osa"],
      [image_tag |-> "tb", os_name |-> "osb"] }

Tags == { p.image_tag : p \in ProfileSet }
OsNames == { p.os_name : p \in ProfileSet }

ConfigLists == UNION { [1..n -> ProfileSet] : n \in 0..MaxProfiles }

\* Images a former run of the tool may have left on the engine.
StaleImages == { {}, {"ta"} }

Min(a, b) == IF a < b THEN a ELSE b

\* The calls of one stage function follow each other and the first one that
\* raises ends the function: at most one of them is given a fault.
AtMostOneFault(fs) ==
    Cardinality({ k \in DOMAIN fs : fs[k] # "none" }) <= 1

(* --------------------------- result values ---------------------------- *)
Absent == [kind |-> "absent", val |-> "-"]
Ok(v) == [kind |-> "ok", val |-> v]
Stderr(e) == [kind |-> "stderr", val |-> e]

Op(name, arg) == [op |-> name, arg |-> arg]

\* Mutant: the name is made of the image tag alone.
ContainerName_without_timestamp(image_tag, timestamp) == << image_tag, 0 >>

\* f"container_test_{image_tag}_{timestamp}"; the engine's ids are other strings.
ContainerName(image_tag, timestamp) == << image_tag, timestamp >>
ContainerId(n) == << "id", n >>

(* --------------------- collaborator fault classes --------------------- *)
\* What the engine / filesystem answers to one call, besides what the state
\* forces (a missing image, a missing file, a name in use). "none" is a normal
\* answer; the others are the exception classes the handlers of app.py tell
\* apart: APIError (and its subclasses), BuildError, OSError, PermissionError,
\* and "Exception" for an exception of no docker.errors class (the transport
\* errors of the HTTP layer), which only `except Exception` catches.
PullFaults == {"none", "APIError"}
DirFaults == {"none", "OSError"}
WriteFaults == {"none", "OSError"}
BuildFaults == {"none", "BuildError", "APIError", "Exception"}
LaunchFaults == {"none", "create_APIError", "start_APIError", "Exception"}
WaitFaults == {"none", "APIError", "Exception"}
LogsFaults == {"none", "stdout_APIError", "stderr_APIError"}
RemoveContainerFaults == {"none", "APIError", "Exception"}
RemoveImageFaults == {"none", "APIError", "Exception"}
PruneFaults == {"none", "APIError", "Exception"}
\* What container.wait() reports of the container's process: 0, or not 0.
ExitStatuses == { 0, 1 }
UnlinkFaults == {"none", "PermissionError"}

(* ------------------------------ _utils.py ----------------------------- *)
\* resolve_dir_path: any OSError of the path operations ends in sys.exit(1).
resolve_dir_path(dirFault) ==
    IF dirFault = "OSError" THEN "exit" ELSE "ok"

(* ------------------------------- app.py ------------------------------- *)
\* Mutant: the except branch prints and falls through instead of exiting.
docker_client_without_exit(up) ==
    "client"

\* docker_client: docker.from_env() raising DockerException ends in sys.exit(1).
docker_client(up) ==
    IF up THEN "client" ELSE "exit"

\* _image_exists: pulls the base image; any exception ends in sys.exit(1).
_image_exists(imgs, os_name, pullFault) ==
    IF pullFault = "none"
    THEN [out |-> "return", images |-> imgs \cup {os_name}]
    ELSE [out |-> "exit", images |-> imgs]

\* remove_dockerfile: unlink Dockerfile.<tag>; FileNotFoundError and every
\* other Exception are printed, but resolve_dir_path may exit the process.
\* err: "none", "notfound" (the target was absent) or "fault".
remove_dockerfile(fs, image_tag, dirFault, unlinkFault) ==
    IF resolve_dir_path(dirFault) = "exit"
    THEN [out |-> "exit", files |-> fs, err |-> "fault"]
    ELSE IF image_tag \notin fs
    THEN [out |-> "return", files |-> fs, err |-> "notfound"]  \* FileNotFoundError
    ELSE IF unlinkFault # "none"
    THEN [out |-> "return", files |-> fs, err |-> "fault"]     \* except Exception
    ELSE [out |-> "return", files |-> fs \ {image_tag}, err |-> "none"]

\* Mutant: ImageNotFound is not caught.
remove_image_not_found_raises(imgs, image_tag, fault) ==
    IF fault = "Exception" \/ (fault = "none" /\ image_tag \notin imgs)
    THEN [out |-> "raise", images |-> imgs, err |-> "fault"]
    ELSE IF fault = "APIError"
    THEN [out |-> "return", images |-> imgs, err |-> "fault"]
    ELSE [out |-> "return", images |-> imgs \ {image_tag}, err |-> "none"]

\* remove_image: images.remove(force=True); ImageNotFound, APIError and
\* DockerException are printed and swallowed, any other exception leaves the
\* function.
remove_image(imgs, image_tag, fault) ==
    IF fault = "Exception"
    THEN [out |-> "raise", images |-> imgs, err |-> "fault"]
    ELSE IF fault = "APIError"
    THEN [out |-> "return", images |-> imgs, err |-> "fault"]
    ELSE IF image_tag \notin imgs
    THEN [out |-> "return", images |-> imgs, err |-> "notfound"]  \* ImageNotFound
    ELSE [out |-> "return", images |-> imgs \ {image_tag}, err |-> "none"]

\* Mutant: the loop compares the container's id with the name it is given.
MatchesContainer_by_id(c, container_id) ==
    c.id = container_id

\* The test of remove_container's loop: the container's name is compared.
MatchesContainer(c, container_id) ==
    c.name = container_id

\* remove_container: list the containers, stop and remove the first one that
\* matches, break; NotFound and APIError are printed, any other exception
\* leaves the function.
remove_container(cs, container_id, fault) ==
    IF fault = "Exception"
    THEN [out |-> "raise", containers |-> cs, err |-> "fault"]
    ELSE IF fault = "APIError"
    THEN [out |-> "return", containers |-> cs, err |-> "fault"]
    ELSE IF \E c \in cs : MatchesContainer(c, container_id)
    THEN [out |-> "return",
          containers |-> cs \ { CHOOSE c \in cs : MatchesContainer(c, container_id) },
          err |-> "none"]
    ELSE [out |-> "return", containers |-> cs, err |-> "notfound"]

\* _remove_dangling: images.prune; DockerException (APIError included) is
\* passed, any other exception leaves the function.
_remove_dangling(fault) ==
    [out |-> IF fault = "Exception" THEN "raise" ELSE "return",
     err |-> IF fault = "none" THEN "none" ELSE "fault"]

\* generate_dockerfile: pull the base image, resolve the directory, write
\* Dockerfile.<image_tag>. A write error is returned as {"stderr": ...}; a
\* pull error and a directory error exit the process.
generate_dockerfile(fs, imgs, os_name, image_tag, pullFault, dirFault, writeFault) ==
    LET pulled == _image_exists(imgs, os_name, pullFault) IN
    IF pulled.out = "exit"
    THEN [out |-> "exit", files |-> fs, images |-> imgs, result |-> Absent,
          ops |-> << Op("pull", os_name) >>, failed |-> TRUE]
    ELSE IF resolve_dir_path(dirFault) = "exit"
    THEN [out |-> "exit", files |-> fs, images |-> pulled.images, result |-> Absent,
          ops |-> << Op("pull", os_name) >>, failed |-> TRUE]
    ELSE IF writeFault # "none"
    THEN [out |-> "return", files |-> fs, images |-> pulled.images,
          result |-> Stderr("OSError"),
          ops |-> << Op("pull", os_name), Op("write", image_tag) >>, failed |-> TRUE]
    ELSE [out |-> "return", files |-> fs \cup {image_tag}, images |-> pulled.images,
          result |-> Ok(image_tag),
          ops |-> << Op("pull", os_name), Op("write", image_tag) >>, failed |-> FALSE]

\* An exception images.build raises: its class and its message (msg of a
\* BuildError, str() of the others); a BuildError has the build log besides.
BuildException(class) ==
    [class |-> class, msg |-> "reason",
     build_log |-> IF class = "BuildError" THEN "build log" ELSE "-"]

\* f"{type(e).__name__}:\n{e.msg}", and f"{type(e).__name__}:\n{e}".
StderrText(e) == << e.class, e.msg >>

\* Mutant: with clean the image of the tag is removed on a failed build too.
build_image_cleans_on_failure(fs, imgs, image_tag, bclean, dirFault, buildFault, rmFault) ==
    LET left == IF bclean THEN remove_image(imgs, image_tag, rmFault).images ELSE imgs
        tried == << Op("build", image_tag) >>
        rm == remove_image(imgs \cup {image_tag}, image_tag, rmFault)
    IN
    IF resolve_dir_path(dirFault) = "exit"
    THEN [out |-> "exit", images |-> imgs, result |-> Absent, ops |-> << >>,
          failed |-> TRUE]
    ELSE IF image_tag \notin fs
    THEN [out |-> "return", images |-> left,
          result |-> Stderr(StderrText(BuildException("APIError"))),
          ops |-> tried, failed |-> TRUE]
    ELSE IF buildFault \in {"BuildError", "APIError"}
    THEN [out |-> "return", images |-> left,
          result |-> Stderr(StderrText(BuildException(buildFault))),
          ops |-> tried, failed |-> TRUE]
    ELSE IF buildFault = "Exception"
    THEN [out |-> "raise", images |-> left, result |-> Absent, ops |-> tried,
          failed |-> TRUE]
    ELSE [out |-> rm.out, images |-> IF bclean THEN rm.images ELSE imgs \cup {image_tag},
          result |-> IF rm.out = "return" THEN Ok(image_tag) ELSE Absent,
          ops |-> tried, failed |-> FALSE]

\* build_image: images.build of Dockerfile.<image_tag> under tag image_tag.
\* BuildError, APIError and TypeError are returned as {"stderr": ...}; other
\* exceptions leave the function; with clean the built image is removed again.
build_image(fs, imgs, image_tag, bclean, dirFault, buildFault, rmFault) ==
    IF resolve_dir_path(dirFault) = "exit"
    THEN [out |-> "exit", images |-> imgs, result |-> Absent, ops |-> << >>,
          failed |-> TRUE]
    ELSE IF image_tag \notin fs      \* the engine cannot locate the Dockerfile
    THEN [out |-> "return", images |-> imgs,
          result |-> Stderr(StderrText(BuildException("APIError"))),
          ops |-> << Op("build", image_tag) >>, failed |-> TRUE]
    ELSE IF buildFault \in {"BuildError", "APIError"}
    THEN [out |-> "return", images |-> imgs,
          result |-> Stderr(StderrText(BuildException(buildFault))),
          ops |-> << Op("build", image_tag) >>, failed |-> TRUE]
    ELSE IF buildFault = "Exception"
    THEN [out |-> "raise", images |-> imgs, result |-> Absent,
          ops |-> << Op("build", image_tag) >>, failed |-> TRUE]
    ELSE IF bclean
    THEN LET rm == remove_image(imgs \cup {image_tag}, image_tag, rmFault) IN
         [out |-> rm.out, images |-> rm.images,
          result |-> IF rm.out = "return" THEN Ok(image_tag) ELSE Absent,
          ops |-> << Op("build", image_tag), Op("rm_image", image_tag) >>,
          failed |-> FALSE]
    ELSE [out |-> "return", images |-> imgs \cup {image_tag}, result |-> Ok(image_tag),
          ops |-> << Op("build", image_tag) >>, failed |-> FALSE]

\* Mutant: with clean the container is removed when wait() has failed too.
run_container_reaps_after_failed_wait(imgs, cs, nid, image_tag, timestamp, rclean, faults) ==
    LET launchFault == faults.launch
        waitFault == faults.wait
        logsFault == faults.logs
        rmFault == faults.rm
        name == ContainerName(image_tag, timestamp)
        new == [name |-> name, id |-> ContainerId(nid)]
        started == cs \cup {new}
        rm == remove_container(started, name, rmFault)
        Run == << Op("run", image_tag) >>
        Wait == Run \o << Op("wait", image_tag) >>
        Out == Wait \o << Op("logs_stdout", image_tag) >>
        Err == Out \o << Op("logs_stderr", image_tag) >>
        base == [out |-> "return", containers |-> cs, nextId |-> nid,
                 result |-> Absent, ops |-> Run, failed |-> TRUE, err |-> "none",
                 status |-> -1, name |-> name]
    IN
    IF image_tag \notin imgs                \* no such image, and no such repository
    THEN [base EXCEPT !.result = Stderr("ImageNotFound")]
    ELSE IF \E c \in cs : c.name = name     \* 409: the name is in use
    THEN [base EXCEPT !.result = Stderr("APIError")]
    ELSE IF launchFault = "create_APIError"
    THEN [base EXCEPT !.result = Stderr("APIError")]
    ELSE IF launchFault = "Exception"
    THEN [base EXCEPT !.out = "raise"]
    ELSE IF launchFault = "start_APIError"  \* created, then start failed
    THEN [base EXCEPT !.result = Stderr("APIError"), !.containers = started,
                      !.nextId = nid + 1]
    ELSE IF waitFault = "APIError"
    THEN [base EXCEPT !.result = Stderr("APIError"),
                      !.containers = IF rclean THEN rm.containers ELSE started,
                      !.nextId = nid + 1, !.ops = Wait]
    ELSE IF waitFault = "Exception"
    THEN [base EXCEPT !.out = "raise", !.containers = started,
                      !.nextId = nid + 1, !.ops = Wait]
    ELSE IF logsFault = "stdout_APIError"
    THEN [base EXCEPT !.out = "raise", !.containers = started,
                      !.nextId = nid + 1, !.ops = Out, !.status = faults.status]
    ELSE IF logsFault = "stderr_APIError"
    THEN [base EXCEPT !.out = "raise", !.containers = started,
                      !.nextId = nid + 1, !.ops = Err, !.status = faults.status]
    ELSE IF rclean
    THEN [out |-> rm.out, containers |-> rm.containers, nextId |-> nid + 1,
          result |-> IF rm.out = "return" THEN Ok(new) ELSE Absent,
          ops |-> Err \o << Op("rm_container", image_tag) >>,
          failed |-> FALSE, err |-> rm.err, status |-> faults.status, name |-> name]
    ELSE [out |-> "return", containers |-> started, nextId |-> nid + 1,
          result |-> Ok(new), ops |-> Err, failed |-> FALSE, err |-> "none",
          status |-> faults.status, name |-> name]

\* Mutant: with clean the container is removed before its logs are read.
run_container_removes_before_logs(imgs, cs, nid, image_tag, timestamp, rclean, faults) ==
    LET launchFault == faults.launch
        waitFault == faults.wait
        logsFault == faults.logs
        rmFault == faults.rm
        name == ContainerName(image_tag, timestamp)
        new == [name |-> name, id |-> ContainerId(nid)]
        started == cs \cup {new}
        rm == remove_container(started, name, rmFault)
        Run == << Op("run", image_tag) >>
        Wait == Run \o << Op("wait", image_tag) >>
        Out == Wait \o << Op("logs_stdout", image_tag) >>
        Err == Out \o << Op("logs_stderr", image_tag) >>
        base == [out |-> "return", containers |-> cs, nextId |-> nid,
                 result |-> Absent, ops |-> Run, failed |-> TRUE, err |-> "none",
                 status |-> -1, name |-> name]
    IN
    IF image_tag \notin imgs                \* no such image, and no such repository
    THEN [base EXCEPT !.result = Stderr("ImageNotFound")]
    ELSE IF \E c \in cs : c.name = name     \* 409: the name is in use
    THEN [base EXCEPT !.result = Stderr("APIError")]
    ELSE IF launchFault = "create_APIError"
    THEN [base EXCEPT !.result = Stderr("APIError")]
    ELSE IF launchFault = "Exception"
    THEN [base EXCEPT !.out = "raise"]
    ELSE IF launchFault = "start_APIError"  \* created, then start failed
    THEN [base EXCEPT !.result = Stderr("APIError"), !.containers = started,
                      !.nextId = nid + 1]
    ELSE IF waitFault = "APIError"
    THEN [base EXCEPT !.result = Stderr("APIError"), !.containers = started,
                      !.nextId = nid + 1, !.ops = Wait]
    ELSE IF waitFault = "Exception"
    THEN [base EXCEPT !.out = "raise", !.containers = started,
                      !.nextId = nid + 1, !.ops = Wait]
    ELSE IF logsFault = "stdout_APIError"
    THEN [base EXCEPT !.out = "raise", !.containers = started,
                      !.nextId = nid + 1, !.ops = Out, !.status = faults.status]
    ELSE IF logsFault = "stderr_APIError"
    THEN [base EXCEPT !.out = "raise", !.containers = started,
                      !.nextId = nid + 1, !.ops = Err, !.status = faults.status]
    ELSE IF rclean
    THEN [out |-> rm.out, containers |-> rm.containers, nextId |-> nid + 1,
          result |-> IF rm.out = "return" THEN Ok(new) ELSE Absent,
          ops |-> Wait \o << Op("rm_container", image_tag),
                            Op("logs_stdout", image_tag), Op("logs_stderr", image_tag) >>,
          failed |-> FALSE, err |-> rm.err, status |-> faults.status, name |-> name]
    ELSE [out |-> "return", containers |-> started, nextId |-> nid + 1,
          result |-> Ok(new), ops |-> Err, failed |-> FALSE, err |-> "none",
          status |-> faults.status, name |-> name]

\* run_container: containers.run(detach=True) and wait() inside the try;
\* ContainerError, ImageNotFound and APIError raised there are returned as
\* {"stderr": ...}. The two logs() calls and remove_container (with clean)
\* are in the else branch: what they raise leaves the function. The value
\* wait() returns (faults.status, the exit status of the container's process)
\* is not looked at; `status` reports it, -1 when wait() did not return.
run_container(imgs, cs, nid, image_tag, timestamp, rclean, faults) ==
    LET launchFault == faults.launch
        waitFault == faults.wait
        logsFault == faults.logs
        rmFault == faults.rm
        name == ContainerName(image_tag, timestamp)
        new == [name |-> name, id |-> ContainerId(nid)]
        started == cs \cup {new}
        rm == remove_container(started, name, rmFault)
        Run == << Op("run", image_tag) >>
        Wait == Run \o << Op("wait", image_tag) >>
        Out == Wait \o << Op("logs_stdout", image_tag) >>
        Err == Out \o << Op("logs_stderr", image_tag) >>
        base == [out |-> "return", containers |-> cs, nextId |-> nid,
                 result |-> Absent, ops |-> Run, failed |-> TRUE, err |-> "none",
                 status |-> -1, name |-> name]
    IN
    IF image_tag \notin imgs                \* no such image, and no such repository
    THEN [base EXCEPT !.result = Stderr("ImageNotFound")]
    ELSE IF \E c \in cs : c.name = name     \* 409: the name is in use
    THEN [base EXCEPT !.result = Stderr("APIError")]
    ELSE IF launchFault = "create_APIError"
    THEN [base EXCEPT !.result = Stderr("APIError")]
    ELSE IF launchFault = "Exception"
    THEN [base EXCEPT !.out = "raise"]
    ELSE IF launchFault = "start_APIError"  \* created, then start failed
    THEN [base EXCEPT !.result = Stderr("APIError"), !.containers = started,
                      !.nextId = nid + 1]
    ELSE IF waitFault = "APIError"
    THEN [base EXCEPT !.result = Stderr("APIError"), !.containers = started,
                      !.nextId = nid + 1, !.ops = Wait]
    ELSE IF waitFault = "Exception"
    THEN [base EXCEPT !.out = "raise", !.containers = started,
                      !.nextId = nid + 1, !.ops = Wait]
    ELSE IF logsFault = "stdout_APIError"
    THEN [base EXCEPT !.out = "raise", !.containers = started,
                      !.nextId = nid + 1, !.ops = Out, !.status = faults.status]
    ELSE IF logsFault = "stderr_APIError"
    THEN [base EXCEPT !.out = "raise", !.containers = started,
                      !.nextId = nid + 1, !.ops = Err, !.status = faults.status]
    ELSE IF rclean
    THEN [out |-> rm.out, containers |-> rm.containers, nextId |-> nid + 1,
          result |-> IF rm.out = "return" THEN Ok(new) ELSE Absent,
          ops |-> Err \o << Op("rm_container", image_tag) >>,
          failed |-> FALSE, err |-> rm.err, status |-> faults.status, name |-> name]
    ELSE [out |-> "return", containers |-> started, nextId |-> nid + 1,
          result |-> Ok(new), ops |-> Err, failed |-> FALSE, err |-> "none",
          status |-> faults.status, name |-> name]

\* Mutant: no pipeline removes the base image.
clean_order_without_base(who) ==
    << "rm_dockerfile", "rm_image", "prune" >>

\* Mutant: the image is removed before the descriptor file.
clean_order_image_first(who) ==
    IF who = "run_config"
    THEN << "rm_image", "rm_dockerfile", "rm_base", "prune" >>
    ELSE << "rm_image", "rm_dockerfile", "prune" >>

\* The calls of the `if clean:` block, in the order the pipeline makes them:
\* run_config removes the base image too, test_container does not.
clean_order(who) ==
    IF who = "run_config"
    THEN << "rm_dockerfile", "rm_image", "rm_base", "prune" >>
    ELSE << "rm_dockerfile", "rm_image", "prune" >>

\* One call of the `if clean:` block, on the files and images st.
clean_step(step, st, cfg, faults) ==
    LET df == remove_dockerfile(st.files, cfg.image_tag, faults.dir, faults.unlink)
        im == remove_image(st.images, cfg.image_tag, faults.tag)
        os == remove_image(st.images, cfg.os_name, faults.base)
        pr == _remove_dangling(faults.prune)
    IN
    CASE step = "rm_dockerfile" ->
           [out |-> df.out, files |-> df.files, images |-> st.images, err |-> df.err,
            op |-> Op("rm_dockerfile", cfg.image_tag)]
      [] step = "rm_image" ->
           [out |-> im.out, files |-> st.files, images |-> im.images, err |-> im.err,
            op |-> Op("rm_image", cfg.image_tag)]
      [] step = "rm_base" ->
           [out |-> os.out, files |-> st.files, images |-> os.images, err |-> os.err,
            op |-> Op("rm_image", cfg.os_name)]
      [] step = "prune" ->
           [out |-> pr.out, files |-> st.files, images |-> st.images, err |-> pr.err,
            op |-> Op("prune", "dangling")]

\* The calls steps[k..] one after the other; the first that does not return
\* (an exit, an exception) ends the block. errs: the calls that met a fault.
RECURSIVE clean_from(_, _, _, _, _)
clean_from(steps, k, st, cfg, faults) ==
    IF k > Len(steps)
    THEN [out |-> "return", files |-> st.files, images |-> st.images,
          ops |-> << >>, errs |-> {}]
    ELSE LET r == clean_step(steps[k], st, cfg, faults)
             rest == clean_from(steps, k + 1, [files |-> r.files, images |-> r.images],
                                cfg, faults)
             errs == IF r.err = "fault" THEN {steps[k]} ELSE {}
         IN IF r.out # "return"
            THEN [out |-> r.out, files |-> r.files, images |-> r.images,
                  ops |-> << r.op >>, errs |-> errs]
            ELSE [rest EXCEPT !.ops = << r.op >> \o @, !.errs = errs \cup @]

\* Mutant: the block is entered only when the image was built.
clean_block_after_success(who, fs, imgs, cfg, faults) ==
    IF image.kind = "ok"
    THEN clean_from(clean_order(who), 1, [files |-> fs, images |-> imgs], cfg, faults)
    ELSE [out |-> "return", files |-> fs, images |-> imgs, ops |-> << >>, errs |-> {}]

\* The `if clean:` block of the pipelines.
clean_block(who, fs, imgs, cfg, faults) ==
    clean_from(clean_order(who), 1, [files |-> fs, images |-> imgs], cfg, faults)

(* -------------------- direct calls of the removers -------------------- *)
\* remove_dockerfile, remove_image and remove_container are exported
\* (__init__.py) and called one at a time on an engine in any state.
NoCall == [op |-> "none", target |-> "-", fault |-> FALSE, out |-> "return",
           absent |-> FALSE, changed |-> FALSE, repeat |-> FALSE,
           afterRemoval |-> FALSE]

\* Containers a former run of the pipeline may have left on the engine.
StaleContainers ==
    { [name |-> ContainerName("ta", 0), id |-> ContainerId(1)],
      [name |-> ContainerName("tb", 0), id |-> ContainerId(2)] }

ContainerTargets ==
    { c.name : c \in StaleContainers } \cup { c.id : c \in StaleContainers }

\* The call repeats the one before it: same function, same target.
Repeats(op, target) == call.op = op /\ call.target = target

InitReaper ==
    /\ entry = "remove"
    /\ config_list = << >>
    /\ clean = FALSE
    /\ pc = "reaper"
    /\ idx = 0
    /\ files \in SUBSET Tags
    /\ images \in SUBSET (Tags \cup OsNames)
    /\ containers \in SUBSET StaleContainers
    /\ clock = 0
    /\ nextId = 1
    /\ dockerfile = Absent
    /\ image = Absent
    /\ container = Absent
    /\ info_list = << >>
    /\ ret = << >>
    /\ log = << >>
    /\ escaped = "none"
    /\ reapErrs = {}
    /\ reachable = "yes"
    /\ call = NoCall

CallRemoveDockerfile ==
    /\ pc = "reaper"
    /\ \E tag \in Tags, df \in DirFaults, uf \in UnlinkFaults :
         LET r == remove_dockerfile(files, tag, df, uf) IN
         /\ files' = r.files
         /\ pc' = IF r.out = "exit" THEN "exited" ELSE pc
         /\ call' = [op |-> "remove_dockerfile", target |-> tag,
                     fault |-> (df # "none" \/ uf # "none"), out |-> r.out,
                     absent |-> tag \notin files, changed |-> r.files # files,
                     repeat |-> Repeats("remove_dockerfile", tag),
                     afterRemoval |-> Repeats("remove_dockerfile", tag) /\ call.changed]
    /\ UNCHANGED << entry, config_list, clean, idx, images, containers, clock, nextId,
                    dockerfile, image, container, info_list, ret, log, escaped,
                    reapErrs, reachable >>

CallRemoveImage ==
    /\ pc = "reaper"
    /\ \E name \in Tags \cup OsNames, f \in RemoveImageFaults :
         LET r == remove_image(images, name, f) IN
         /\ images' = r.images
         /\ call' = [op |-> "remove_image", target |-> name, fault |-> f # "none",
                     out |-> r.out, absent |-> name \notin images,
                     changed |-> r.images # images,
                     repeat |-> Repeats("remove_image", name),
                     afterRemoval |-> Repeats("remove_image", name) /\ call.changed]
    /\ UNCHANGED << entry, config_list, clean, pc, idx, files, containers, clock,
                    nextId, dockerfile, image, container, info_list, ret, log,
                    escaped, reapErrs, reachable >>

CallRemoveContainer ==
    /\ pc = "reaper"
    /\ \E id \in ContainerTargets, f \in RemoveContainerFaults :
         LET r == remove_container(containers, id, f) IN
         /\ containers' = r.containers
         /\ call' = [op |-> "remove_container", target |-> id, fault |-> f # "none",
                     out |-> r.out,
                     absent |-> ~\E c \in containers : id \in {c.name, c.id},
                     changed |-> r.containers # containers,
                     removed |-> containers \ r.containers,
                     repeat |-> Repeats("remove_container", id),
                     afterRemoval |-> Repeats("remove_container", id) /\ call.changed]
    /\ UNCHANGED << entry, config_list, clean, pc, idx, files, images, clock, nextId,
                    dockerfile, image, container, info_list, ret, log, escaped,
                    reapErrs, reachable >>

NextReaper ==
    \/ CallRemoveDockerfile
    \/ CallRemoveImage
    \/ CallRemoveContainer

SpecReaper == InitReaper /\ [][NextReaper]_vars

(* ------------------------ Dockerfile synthesizers ---------------------- *)
\* The content of a Dockerfile is modelled as the list of its lines
\* (str.splitlines()), a line as the pair of its directive and the rest.
\* In this part `files` holds the names of the files of the working directory.
MaxCmds == 2
MaxCalls == 2

Commands == { "c1", "c2" }
CommandLists == UNION { [1..n -> Commands] : n \in 0..MaxCmds }
Markers == { "pyproject.toml", "uv.lock" }
WorkingDirFiles == Markers \cup { "README.md" }
Variants == { "_dockerfile_template", "_dockerfile_content", "_get_template" }

Line(directive, rest) == << directive, rest >>
Blank == Line("", "")
FromLine(os_name) == Line("FROM", os_name)
UvCopy == Line("COPY", "--from=ghcr.io/astral-sh/uv:latest /uv /uvx /bin/")
Workdir == Line("WORKDIR", "/app")
AddAll == Line("ADD", ". /app")
CopyMarker(m) == Line("COPY", m)
RunLine(cmd) == Line("RUN", cmd)

\* pathlib.Path(name).exists()
Exists(name) == name \in files

\* "\n".join(f"RUN {cmd}" for cmd in commands)
RunLines_reversed(commands) ==
    [ i \in 1..Len(commands) |-> RunLine(commands[Len(commands) + 1 - i]) ]
RunLines(commands) ==
    [ i \in 1..Len(commands) |-> RunLine(commands[i]) ]

\* app.py: reads pyproject.toml's presence itself.
_dockerfile_template_reads_lock(os_name, os_commands) ==
    LET deps == IF Exists("pyproject.toml") \/ Exists("uv.lock")
                THEN << CopyMarker("pyproject.toml") >>
                ELSE << Line("#", "no pyproject detected") >>
        cmds == IF os_commands # << >> THEN RunLines(os_commands) ELSE << Blank >>
    IN << FromLine(os_name), Blank, UvCopy, Workdir, Blank >> \o deps
         \o << Blank, AddAll, Blank >> \o cmds
_dockerfile_template(os_name, os_commands) ==
    LET has_py == Exists("pyproject.toml")
        deps == IF has_py THEN << CopyMarker("pyproject.toml") >>
                          ELSE << Line("#", "no pyproject detected") >>
        cmds == IF os_commands # << >> THEN RunLines(os_commands) ELSE << Blank >>
    IN << FromLine(os_name), Blank, UvCopy, Workdir, Blank >> \o deps
         \o << Blank, AddAll, Blank >> \o cmds

\* factory.py: reads pyproject.toml's and uv.lock's presence, and syncs.
_dockerfile_content(os_name, commands) ==
    LET has_py == Exists("pyproject.toml")
        has_lock == Exists("uv.lock")
        dependencies == (IF has_py THEN << CopyMarker("pyproject.toml") >> ELSE << >>)
                        \o (IF has_lock THEN << CopyMarker("uv.lock") >> ELSE << >>)
        deps == IF dependencies # << >> THEN dependencies
                ELSE << Line("#", "no pyproject/lock detected") >>
        cmds == IF commands # << >> THEN RunLines(commands) ELSE << Blank >>
        sync_cmd == IF has_lock THEN "uv sync --locked" ELSE "uv sync"
    IN << FromLine(os_name), Blank, UvCopy, Workdir, Blank >> \o deps
         \o << Blank, Line("ENV", "UV_LINK_MODE=copy"), AddAll, Blank,
               RunLine(sync_cmd) >> \o cmds

\* docker_backend.py: DockerBackend._get_template, os_name being self.os_name.
\* The text has no final newline: an empty command list adds no line.
_get_template_add_first(os_name, os_commands) ==
    << FromLine(os_name), UvCopy, AddAll, Workdir >> \o RunLines(os_commands)
_get_template(os_name, os_commands) ==
    << FromLine(os_name), UvCopy, Workdir, AddAll >> \o RunLines(os_commands)

Synthesizer(variant, os_name, os_commands) ==
    CASE variant = "_dockerfile_template" -> _dockerfile_template(os_name, os_commands)
      [] variant = "_dockerfile_content" -> _dockerfile_content(os_name, os_commands)
      [] OTHER -> _get_template(os_name, os_commands)

\* The marker files a synthesizer looks for.
Reads(variant) ==
    CASE variant = "_dockerfile_template" -> { "pyproject.toml" }
      [] variant = "_dockerfile_content" -> Markers
      [] OTHER -> {}

InitSynth ==
    /\ entry = "synthesize"
    /\ config_list = << >>
    /\ clean = FALSE
    /\ pc = "synth"
    /\ idx = 0
    /\ files \in SUBSET WorkingDirFiles
    /\ images = {}
    /\ containers = {}
    /\ clock = 0
    /\ nextId = 1
    /\ dockerfile = Absent
    /\ image = Absent
    /\ container = Absent
    /\ info_list = << >>
    /\ ret = << >>
    /\ log = << >>
    /\ escaped = "none"
    /\ reapErrs = {}
    /\ reachable = "unknown"
    /\ \E v \in Variants, o \in OsNames, cs \in CommandLists :
         call = [op |-> "synthesize", variant |-> v, os_name |-> o, os_commands |-> cs,
                 n |-> 0, content |-> << >>, present |-> {},
                 previous |-> << >>, presentBefore |-> {}]

\* One call of the synthesizer, with the arguments fixed at the start.
Synthesize ==
    /\ pc = "synth"
    /\ call.n < MaxCalls
    /\ call' = [call EXCEPT !.n = @ + 1,
                            !.content = Synthesizer(call.variant, call.os_name,
                                                    call.os_commands),
                            !.present = files,
                            !.previous = call.content,
                            !.presentBefore = call.present]
    /\ UNCHANGED << entry, config_list, clean, pc, idx, files, images, containers,
                    clock, nextId, dockerfile, image, container, info_list, ret,
                    log, escaped, reapErrs, reachable >>

\* Between two calls a file of the working directory appears or disappears.
TouchFile ==
    /\ pc = "synth"
    /\ call.n < MaxCalls
    /\ \E f \in WorkingDirFiles :
         files' = IF f \in files THEN files \ {f} ELSE files \cup {f}
    /\ UNCHANGED << entry, config_list, clean, pc, idx, images, containers, clock,
                    nextId, dockerfile, image, container, info_list, ret, log,
                    escaped, reapErrs, reachable, call >>

NextSynth ==
    \/ Synthesize
    \/ TouchFile

SpecSynth == InitSynth /\ [][NextSynth]_vars

(* ----------------------- direct calls of the stages -------------------- *)
\* build_image and run_container are exported (__init__.py) and called one
\* at a time, with any clean flag, on an engine in any state: at most
\* MaxCalls calls are followed. Here time.time() is kept in ticks finer than
\* the second, call.now being the last value read.
TicksPerSecond == 2
MaxTicks == 3

\* int(time.time())
Timestamp(now) == now \div TicksPerSecond

NoProfile == [image_tag |-> "-", os_name |-> "-"]

NoStageCall ==
    [op |-> "none", n |-> 0, tag |-> "-", clean |-> FALSE, out |-> "return",
     result |-> Absent,
     ops |-> << >>, failed |-> FALSE, changed |-> FALSE, status |-> -1, now |-> 0,
     name |-> ContainerName("-", 0), profile |-> NoProfile, created |-> {},
     prev |-> [op |-> "none", tag |-> "-", now |-> 0, name |-> ContainerName("-", 0),
               profile |-> NoProfile]]

InitStages ==
    /\ entry = "stage"
    /\ config_list = << >>
    /\ clean = FALSE
    /\ pc = "stages"
    /\ idx = 0
    /\ files \in SUBSET Tags
    /\ images \in SUBSET Tags
    /\ containers = {}
    /\ clock = 0
    /\ nextId = 1
    /\ dockerfile = Absent
    /\ image = Absent
    /\ container = Absent
    /\ info_list = << >>
    /\ ret = << >>
    /\ log = << >>
    /\ escaped = "none"
    /\ reapErrs = {}
    /\ reachable = "yes"
    /\ call = NoStageCall

\* What the next call remembers of this one.
Before ==
    [op |-> call.op, tag |-> call.tag, now |-> call.now, name |-> call.name,
     profile |-> call.profile]

\* build_image(client, image_tag, path, clean=bclean)
CallBuildImage ==
    /\ pc = "stages"
    /\ call.n < MaxCalls
    /\ \E p \in ProfileSet, bclean \in BOOLEAN, df \in DirFaults, bf \in BuildFaults,
          rf \in RemoveImageFaults :
         /\ AtMostOneFault(<< df, bf, rf >>)
         /\ LET r == build_image(files, images, p.image_tag, bclean, df, bf, rf) IN
            /\ images' = r.images
            /\ pc' = IF r.out = "return" THEN pc ELSE "exited"
            /\ call' = [op |-> "build_image", fault |-> bf, n |-> call.n + 1,
                        tag |-> p.image_tag, clean |-> bclean,
                        out |-> r.out, result |-> r.result, ops |-> r.ops,
                        failed |-> r.failed, changed |-> r.images # images,
                        status |-> -1, now |-> call.now,
                        name |-> ContainerName("-", 0), profile |-> p,
                        created |-> {}, prev |-> Before]
    /\ UNCHANGED << entry, config_list, clean, idx, files, containers, clock, nextId,
                    dockerfile, image, container, info_list, ret, log, escaped,
                    reapErrs, reachable >>

\* run_container(client, image_tag, command, clean=rclean)
CallRunContainer ==
    /\ pc = "stages"
    /\ call.n < MaxCalls
    /\ \E p \in ProfileSet, rclean \in BOOLEAN, now \in call.now..Min(call.now + 1, MaxTicks),
          lf \in LaunchFaults, wf \in WaitFaults, gf \in LogsFaults,
          rf \in RemoveContainerFaults, st \in ExitStatuses :
         /\ AtMostOneFault(<< lf, wf, gf, rf >>)
         /\ (lf # "none" \/ wf # "none") => st = 0
         /\ LET r == run_container(images, containers, nextId, p.image_tag,
                                   Timestamp(now), rclean,
                                   [launch |-> lf, wait |-> wf, logs |-> gf,
                                    rm |-> rf, status |-> st]) IN
            /\ clock' = Timestamp(now)
            /\ containers' = r.containers
            /\ nextId' = r.nextId
            /\ pc' = IF r.out = "return" THEN pc ELSE "exited"
            /\ call' = [op |-> "run_container", n |-> call.n + 1, tag |-> p.image_tag,
                        clean |-> rclean,
                        out |-> r.out, result |-> r.result, ops |-> r.ops,
                        failed |-> r.failed, changed |-> r.containers # containers,
                        status |-> r.status, now |-> now,
                        name |-> r.name, profile |-> p,
                        created |-> { c \in r.containers : c.id = ContainerId(nextId) },
                        prev |-> Before]
    /\ UNCHANGED << entry, config_list, clean, idx, files, images, dockerfile, image,
                    container, info_list, ret, log, escaped, reapErrs, reachable >>

NextStages ==
    \/ CallBuildImage
    \/ CallRunContainer

SpecStages == InitStages /\ [][NextStages]_vars

(* ------------------------------ pipeline ------------------------------ *)
\* Mutant: the list is walked from its end.
Cfg_reversed == config_list[Len(config_list) + 1 - idx]

\* cfg of `for i, cfg in enumerate(config_list)`.
Cfg == config_list[idx]

\* sys.exit(1): SystemExit is no Exception, no handler of app.py catches it.
Exit ==
    /\ pc' = "exited"
    /\ UNCHANGED << idx, dockerfile, image, container, info_list, ret >>

\* `except (APIError, Exception)`: print, return [].
Handler ==
    /\ pc' = "done"
    /\ ret' = << >>
    /\ UNCHANGED << idx, dockerfile, image, container, info_list >>

Init ==
    /\ entry \in {"run_config", "test_container"}
    /\ config_list \in ConfigLists
    /\ entry = "test_container" => Len(config_list) = 1
    /\ clean \in BOOLEAN
    /\ pc = "start"
    /\ idx = 0
    /\ files = {}
    /\ images \in StaleImages
    /\ containers = {}
    /\ clock = 0
    /\ nextId = 1
    /\ dockerfile = Absent
    /\ image = Absent
    /\ container = Absent
    /\ info_list = << >>
    /\ ret = << >>
    /\ log = << >>
    /\ escaped = "none"
    /\ reapErrs = {}
    /\ reachable = "unknown"
    /\ call = NoCall

\* client = docker_client(); the loop is entered, or returns at once on [].
Connect ==
    /\ pc = "start"
    /\ \E up \in BOOLEAN :
         /\ reachable' = IF up THEN "yes" ELSE "no"
         /\ IF docker_client(up) = "exit"
            THEN /\ pc' = "exited"
                 /\ UNCHANGED << idx, ret >>
            ELSE IF Len(config_list) = 0
            THEN /\ pc' = "done"
                 /\ ret' = info_list
                 /\ UNCHANGED idx
            ELSE /\ pc' = "generate"
                 /\ idx' = 1
                 /\ UNCHANGED ret
    /\ UNCHANGED << entry, config_list, clean, files, images, containers, clock,
                    nextId, dockerfile, image, container, info_list, log, escaped,
                    reapErrs, call >>

\* "dockerfile": generate_dockerfile(...)
Generate ==
    /\ pc = "generate"
    /\ \E pf \in PullFaults, df \in DirFaults, wf \in WriteFaults :
         /\ AtMostOneFault(<< pf, df, wf >>)
         /\ LET r == generate_dockerfile(files, images, Cfg.os_name, Cfg.image_tag,
                                      pf, df, wf) IN
            /\ files' = r.files
            /\ images' = r.images
            /\ log' = r.ops
            /\ reapErrs' = {}
            /\ escaped' = IF r.out = "return" THEN escaped ELSE "generate"
            /\ IF r.out = "exit"
               THEN Exit
               ELSE /\ pc' = "build"
                    /\ dockerfile' = r.result
                    /\ UNCHANGED << idx, image, container, info_list, ret >>
    /\ UNCHANGED << entry, config_list, clean, containers, clock, nextId,
                    reachable, call >>

\* "image": build_image(client, image_tag, path)
Build ==
    /\ pc = "build"
    /\ \E df \in DirFaults, bf \in BuildFaults :
         /\ AtMostOneFault(<< df, bf >>)
         /\ LET r == build_image(files, images, Cfg.image_tag, FALSE, df, bf, "none") IN
            /\ images' = r.images
            /\ log' = log \o r.ops
            /\ escaped' = IF r.out = "return" THEN escaped ELSE "build"
            /\ CASE r.out = "exit" -> Exit
                 [] r.out = "raise" -> Handler
                 [] OTHER -> /\ pc' = "run"
                             /\ image' = r.result
                             /\ UNCHANGED << idx, dockerfile, container, info_list, ret >>
    /\ UNCHANGED << entry, config_list, clean, files, containers, clock, nextId,
                    reapErrs, reachable, call >>

\* "container": run_container(client, image_tag, command, clean=clean)
Run ==
    /\ pc = "run"
    /\ \E t \in clock..Min(clock + 1, MaxClock), lf \in LaunchFaults,
          wf \in WaitFaults, gf \in LogsFaults, rf \in RemoveContainerFaults,
          st \in ExitStatuses :
         /\ AtMostOneFault(<< lf, wf, gf, rf >>)
         /\ (lf # "none" \/ wf # "none") => st = 0    \* no status without wait()
         /\ LET r == run_container(images, containers, nextId, Cfg.image_tag, t, clean,
                                   [launch |-> lf, wait |-> wf, logs |-> gf,
                                    rm |-> rf, status |-> st]) IN
            /\ clock' = t
            /\ containers' = r.containers
            /\ nextId' = r.nextId
            /\ log' = log \o r.ops
            /\ reapErrs' = IF r.err = "fault" THEN {"rm_container"} ELSE {}
            /\ escaped' = IF r.out = "return" THEN escaped
                          ELSE IF r.err = "fault" THEN "cleanup" ELSE "run"
            /\ IF r.out = "raise"
               THEN Handler
               ELSE /\ pc' = "cleanup"
                    /\ container' = r.result
                    /\ UNCHANGED << idx, dockerfile, image, info_list, ret >>
    /\ UNCHANGED << entry, config_list, clean, files, images, reachable, call >>

\* if clean: ...; info_list.append(docker_info); next profile, or return.
Cleanup ==
    /\ pc = "cleanup"
    /\ \E df \in DirFaults, uf \in UnlinkFaults, tf \in RemoveImageFaults,
          bf \in RemoveImageFaults, pf \in PruneFaults :
         LET faults == [dir |-> df, unlink |-> uf, tag |-> tf, base |-> bf,
                        prune |-> pf]
             r == IF clean
                  THEN clean_block(entry, files, images, Cfg, faults)
                  ELSE [out |-> "return", files |-> files, images |-> images,
                        ops |-> << >>, errs |-> {}]
             docker_info == [dockerfile |-> dockerfile, image |-> image,
                             container |-> container]
         IN
         /\ files' = r.files
         /\ images' = r.images
         /\ reapErrs' = reapErrs \cup r.errs
         /\ escaped' = IF r.out = "return" THEN escaped ELSE "cleanup"
         /\ log' = log \o r.ops
         /\ CASE r.out = "exit" -> Exit
              [] r.out = "raise" -> Handler
              [] OTHER ->
                   /\ info_list' = Append(info_list, docker_info)
                   /\ IF idx < Len(config_list)
                      THEN /\ pc' = "generate"
                           /\ idx' = idx + 1
                           /\ dockerfile' = Absent
                           /\ image' = Absent
                           /\ container' = Absent
                           /\ UNCHANGED ret
                      ELSE /\ pc' = "done"
                           /\ ret' = info_list'
                           /\ UNCHANGED << idx, dockerfile, image, container >>
    /\ UNCHANGED << entry, config_list, clean, containers, clock, nextId,
                    reachable, call >>

Next ==
    \/ Connect
    \/ Generate
    \/ Build
    \/ Run
    \/ Cleanup

Spec == Init /\ [][Next]_vars

(* ------------------------- shared vocabulary -------------------------- *)
N == Len(config_list)

\* The engine connection was acquired (docker_client returned a client).
EngineAcquired == reachable = "yes"

\* The process has left the pipeline: it returned, or it exited.
Ended == pc \in {"done", "exited"}

AllOk(info) ==
    /\ info.dockerfile.kind = "ok"
    /\ info.image.kind = "ok"
    /\ info.container.kind = "ok"

\* Result info carries nothing that names another profile than cfg.
Belongs(info, cfg) ==
    /\ info.dockerfile.kind = "ok" => info.dockerfile.val = cfg.image_tag
    /\ info.image.kind = "ok" => info.image.val = cfg.image_tag
    /\ info.container.kind = "ok" => info.container.val.name[1] = cfg.image_tag

Issued(name) == \E k \in 1..Len(log) : log[k].op = name

(* ------------------------------- claims ------------------------------- *)

\* C1: for every list of N profiles and every combination of stage failures,
\* run_config returns exactly N results, result i belonging to profile i.
\* (Stated for every run in which the engine connection was acquired.)
C1_ReturnsOneResultPerProfile ==
    (entry = "run_config" /\ EngineAcquired /\ Ended) =>
        /\ pc = "done"
        /\ Len(ret) = N
        /\ \A i \in 1..N : Belongs(ret[i], config_list[i])

\* C2: once a stage of a profile has failed, no later stage is executed for
\* that profile: no build and no run call after a generate failure, no run
\* call after a build failure.
C2_NoStageAfterFailure ==
    /\ dockerfile.kind = "stderr" => ~Issued("build") /\ ~Issued("run")
    /\ image.kind = "stderr" => ~Issued("run")

\* C3: once the engine connection is acquired, no stage error of a profile
\* (pull, descriptor directory/write, build, run) exits the process or stops
\* the batch: every profile is run and the batch runner returns normally.
C3_StageErrorsDoNotStopTheBatch ==
    (entry = "run_config" /\ EngineAcquired /\ escaped # "cleanup") =>
        /\ pc # "exited"
        /\ pc = "done" => Len(info_list) = N

\* C4: if acquiring the engine connection fails, the run aborts before any
\* profile is attempted: no pull, write, build, run or remove is performed.
C4_NoConnectionNoOperation ==
    reachable = "no" =>
        /\ pc = "exited"
        /\ idx = 0
        /\ log = << >>
        /\ files = {}
        /\ containers = {}
        /\ images \in StaleImages
        /\ info_list = << >>

C4_Witness ==
    /\ reachable = "no"
    /\ pc = "exited"
    /\ N >= 1

\* The image field holds the error of a BuildError.
IsBuildFailure(r) == r.kind = "stderr" /\ r.val[1] = "BuildError"

\* C5: when the engine reports a build error for a profile whose descriptor
\* was written, the result has the descriptor populated, the image absent
\* (a BuildFailure in its place) and the container absent: no record and no
\* error of the run stage.
C5_BuildFailureLeavesContainerAbsent ==
    \A i \in 1..Len(info_list) :
        (info_list[i].dockerfile.kind = "ok" /\ IsBuildFailure(info_list[i].image))
            => info_list[i].container.kind = "absent"

\* The profiles whose pipeline met a stage failure (not a cleanup failure):
\* an error recorded in the result, or an exception or exit that left the stage.
Failed(j) ==
    \/ j <= Len(info_list) /\ ~AllOk(info_list[j])
    \/ j = idx /\ escaped \in {"generate", "build", "run"}

FailedAtRun(k) ==
    \/ /\ k <= Len(info_list)
       /\ info_list[k].dockerfile.kind = "ok"
       /\ info_list[k].image.kind = "ok"
       /\ info_list[k].container.kind = "stderr"
    \/ /\ k = idx
       /\ escaped = "run"
       /\ dockerfile.kind = "ok"
       /\ image.kind = "ok"

\* C6: in a batch where only one profile fails, and it fails at the run
\* stage, that profile's result records the run error while the results of
\* every other profile carry no error in any field.
C6_RunFailureIsIsolated ==
    (entry = "run_config" /\ Ended /\ escaped # "cleanup") =>
        \A k \in 1..N :
            (FailedAtRun(k) /\ \A j \in (1..N) \ {k} : ~Failed(j)) =>
                /\ pc = "done"
                /\ Len(ret) = N
                /\ ret[k].container.kind = "stderr"
                /\ \A j \in (1..N) \ {k} : AllOk(ret[j])

\* The pipeline has just finished a profile: its result is the last of info_list.
Finished ==
    /\ escaped = "none"
    /\ pc \in {"generate", "done"}
    /\ Len(info_list) >= 1

Last == info_list[Len(info_list)]
LastCfg == config_list[Len(info_list)]

ArtifactsGone ==
    /\ LastCfg.image_tag \notin files
    /\ LastCfg.image_tag \notin images
    /\ \A c \in containers : c.id # Last.container.val.id

\* C7 as stated: with clean, when generate, build and run all succeeded for
\* a profile, then when the pipeline is through with it the file
\* Dockerfile.<tag>, the image <tag> and the container of the run are gone.
C7_CleanLeavesNothing ==
    (clean /\ Finished /\ AllOk(Last)) => ArtifactsGone

\* C7 as amended: ... and none of the three removals (container, descriptor
\* file, image) met an engine or filesystem error ...
C7_CleanLeavesNothingUnlessRemovalFails ==
    (clean /\ Finished /\ AllOk(Last)
       /\ reapErrs \cap {"rm_container", "rm_dockerfile", "rm_image"} = {})
        => ArtifactsGone

C7_Witness ==
    /\ clean
    /\ Finished
    /\ AllOk(Last)
    /\ reapErrs = {}
    /\ Issued("rm_container")
    /\ Issued("rm_dockerfile")
    /\ ArtifactsGone

RemovalOps == {"rm_dockerfile", "rm_image", "rm_container", "prune"}

\* The log's removals follow each other by non-decreasing rank.
RemovalsOrderedBy(rank) ==
    \A a, b \in 1..Len(log) :
        (a < b /\ log[a].op \in RemovalOps /\ log[b].op \in RemovalOps)
            => rank[log[a].op] <= rank[log[b].op]

\* C9 as stated: the removals of one profile are issued in the order
\* descriptor file, image, container, dangling prune.
C9_RemovalOrderOfTheSpec ==
    RemovalsOrderedBy([rm_dockerfile |-> 1, rm_image |-> 2, rm_container |-> 3,
                       prune |-> 4])

\* C9 as amended: the removals of one profile are issued in the order
\* container (inside the run stage), descriptor file, image(s), dangling prune.
C9_RemovalOrderOfTheCode ==
    RemovalsOrderedBy([rm_container |-> 1, rm_dockerfile |-> 2, rm_image |-> 3,
                       prune |-> 4])

C9_Witness ==
    /\ Issued("rm_container")
    /\ Issued("rm_dockerfile")
    /\ Issued("rm_image")
    /\ Issued("prune")

\* C10: no failure of a cleanup operation is surfaced: whatever the engine or
\* the filesystem raises during cleanup, the pipeline returns what it would
\* have returned had cleanup succeeded, and the process does not exit.
C10_CleanupFailureIsNeverSurfaced ==
    (Ended /\ reapErrs # {} /\ escaped \in {"none", "cleanup"}) =>
        /\ pc = "done"
        /\ Len(ret) = N

\* C8: the removers are idempotent: a second call on the same target, which
\* the first call removed or which never existed, returns normally (the
\* engine or filesystem answering "not found") and changes nothing.
C8_SecondRemoveIsNoOp ==
    (call.repeat /\ call.absent /\ ~call.fault) =>
        /\ call.out = "return"
        /\ ~call.changed

C8_Witness ==
    /\ call.op = "remove_image"
    /\ call.afterRemoval
    /\ call.absent
    /\ ~call.fault
    /\ call.out = "return"

\* C11: each stage function (generate_dockerfile, build_image, run_container)
\* returns a dictionary on every outcome: it never raises to the caller and
\* never exits the process.
C11_StagesAlwaysReturn ==
    escaped \notin {"generate", "build", "run"}

\* C13: partially populated results are preserved: the fields a profile has
\* recorded, and the results of the profiles already finished, are still in
\* what the pipeline returns when a later step fails.
C13_PartialResultsArePreserved ==
    pc = "done" =>
        /\ \A i \in 1..Len(info_list) : Len(ret) >= i /\ ret[i] = info_list[i]
        /\ (escaped # "none" /\ dockerfile.kind # "absent") =>
               /\ Len(ret) >= idx
               /\ ret[idx].dockerfile = dockerfile

(* ----------------------- synthesizer vocabulary ------------------------ *)
Synthesized == call.op = "synthesize" /\ call.n >= 1
SynthesizedTwice == call.op = "synthesize" /\ call.n = MaxCalls

\* Positions of the lines of a set in a content.
Positions(content, lines) == { i \in DOMAIN content : content[i] \in lines }
Precede(content, first, then) ==
    \A i \in Positions(content, first), j \in Positions(content, then) : i < j

IsRun(line) == line[1] = "RUN"
RunPart(content) == SelectSeq(content, IsRun)
AllRunLines(content) == { content[i] : i \in { j \in DOMAIN content : IsRun(content[j]) } }
DependencyCopies == { CopyMarker(m) : m \in Markers }

\* The dependency copies are those of the markers looked for and present,
\* once each.
CopiesExactlyThePresentMarkers ==
    LET wanted == call.present \cap Reads(call.variant) IN
    /\ \A m \in wanted : Cardinality(Positions(call.content, {CopyMarker(m)})) = 1
    /\ \A m \in Markers \ wanted : Positions(call.content, {CopyMarker(m)}) = {}

\* C14: the synthesizer is deterministic in its arguments and reads no
\* filesystem state: two calls with the same base image and the same command
\* list return identical content.
C14_SameArgumentsSameContent ==
    SynthesizedTwice => call.content = call.previous

\* C14 (amended): two calls with the same arguments return identical content
\* when the marker files the synthesizer looks for are present or absent alike
\* at both calls; no other file matters.
C14_SameArgumentsAndMarkersSameContent ==
    (/\ SynthesizedTwice
     /\ call.present \cap Reads(call.variant) = call.presentBefore \cap Reads(call.variant))
    => call.content = call.previous

C14_Witness ==
    /\ SynthesizedTwice
    /\ call.variant = "_dockerfile_template"
    /\ "pyproject.toml" \in call.present \cap call.presentBefore
    /\ call.present # call.presentBefore

\* C15: the directives come in the order FROM, dependency copies for exactly
\* the markers present, WORKDIR, ADD, command directives.
C15_OrderOfTheSpec ==
    Synthesized =>
        /\ call.content[1] = FromLine(call.os_name)
        /\ CopiesExactlyThePresentMarkers
        /\ Precede(call.content, DependencyCopies, {Workdir})
        /\ Precede(call.content, {Workdir}, {AddAll})
        /\ Precede(call.content, {AddAll}, AllRunLines(call.content))

\* C15 (amended): the directives come in the order FROM, the copy of uv,
\* WORKDIR, dependency copies for exactly the markers looked for and present,
\* ADD, command directives.
C15_OrderOfTheCode ==
    Synthesized =>
        /\ call.content[1] = FromLine(call.os_name)
        /\ CopiesExactlyThePresentMarkers
        /\ Precede(call.content, {UvCopy}, {Workdir})
        /\ Precede(call.content, {Workdir}, DependencyCopies)
        /\ Precede(call.content, DependencyCopies, {AddAll})
        /\ Precede(call.content, {Workdir}, {AddAll})
        /\ Precede(call.content, {AddAll}, AllRunLines(call.content))
        /\ \A l \in {UvCopy, Workdir, AddAll} :
               Cardinality(Positions(call.content, {l})) = 1

C15_Witness ==
    /\ Synthesized
    /\ call.variant = "_dockerfile_template"
    /\ "pyproject.toml" \in call.present
    /\ Len(call.os_commands) = MaxCmds

\* The RUN lines of the content are those of `first`, then one per setup
\* command in input order.
RunLinesAre(first) ==
    LET runs == RunPart(call.content)
        k == Len(first)
    IN /\ Len(runs) = k + Len(call.os_commands)
       /\ \A i \in 1..k : runs[i] = first[i]
       /\ \A i \in 1..Len(call.os_commands) : runs[k + i] = RunLine(call.os_commands[i])

\* C16: the content has the line FROM <base image> and exactly one line
\* RUN <cmd> per setup command, in input order, all after FROM; an empty
\* command list yields no RUN line.
C16_OneRunLinePerCommand ==
    Synthesized =>
        /\ Cardinality(Positions(call.content, {FromLine(call.os_name)})) = 1
        /\ RunLinesAre(<< >>)
        /\ Precede(call.content, {FromLine(call.os_name)}, AllRunLines(call.content))

\* C16 (amended): as C16, except that factory.py's _dockerfile_content puts
\* one line RUN uv sync (--locked when uv.lock exists) before the command
\* lines, also for an empty command list.
C16_OneRunLinePerCommandAfterSync ==
    Synthesized =>
        LET sync == IF call.variant # "_dockerfile_content" THEN << >>
                    ELSE IF "uv.lock" \in call.present
                         THEN << RunLine("uv sync --locked") >>
                         ELSE << RunLine("uv sync") >>
        IN /\ Cardinality(Positions(call.content, {FromLine(call.os_name)})) = 1
           /\ RunLinesAre(sync)
           /\ Precede(call.content, {FromLine(call.os_name)}, AllRunLines(call.content))

C16_Witness ==
    /\ Synthesized
    /\ Len(call.os_commands) = MaxCmds
    /\ call.os_commands[1] # call.os_commands[MaxCmds]
    /\ Len(RunPart(call.content)) >= MaxCmds

(* ------------------------ stage-call vocabulary ------------------------ *)
BuildCalled == call.op = "build_image"
RunCalled == call.op = "run_container"
\* wait() returned: the container was launched and its process has ended.
Waited == RunCalled /\ call.status # -1
\* The last two calls ran a container for the same profile.
RanTwice ==
    /\ RunCalled
    /\ call.prev.op = "run_container"
    /\ call.profile = call.prev.profile
Removes(ops) == \E i \in DOMAIN ops : ops[i].op \in {"rm_image", "rm_container"}

\* C12: when the container starts and its process exits with a non-zero
\* status, the run stage reports an error, not a successful container record.
C12_AbnormalExitIsReported ==
    (Waited /\ call.status # 0) => call.result.kind # "ok"

\* C17: two run-stage calls for the same profile use the same image tag, and
\* different container names whenever the clock value the second reads is
\* later than the one the first read.
C17_LaterClockOtherName ==
    RanTwice =>
        /\ call.tag = call.prev.tag
        /\ call.now > call.prev.now => call.name # call.prev.name

\* C17 (amended): two run-stage calls for the same profile use the same image
\* tag, and different container names whenever the second reads a later whole
\* second of the clock.
C17_LaterSecondOtherName ==
    RanTwice =>
        /\ call.tag = call.prev.tag
        /\ (call.now \div TicksPerSecond > call.prev.now \div TicksPerSecond)
               => call.name # call.prev.name

C17_Witness ==
    /\ RanTwice
    /\ call.now \div TicksPerSecond > call.prev.now \div TicksPerSecond
    /\ call.result.kind = "ok"

\* C18: a failing build removes nothing, with clean too: no removal is called
\* and the files, images and containers are those of before the call.
C18_FailedBuildRemovesNothing ==
    (BuildCalled /\ call.failed) => ~call.changed /\ ~Removes(call.ops)

C18_Witness ==
    /\ BuildCalled
    /\ call.clean
    /\ call.result.kind = "stderr"
    /\ call.tag \in images

\* C19: the run stage returns a container record only when wait completed;
\* when launching or waiting fails it returns an error and calls no removal,
\* so a container that was created stays on the engine.
C19_FailedRunReturnsErrorAndKeepsContainer ==
    RunCalled =>
        /\ call.result.kind = "ok" => Waited
        /\ ~Waited =>
               /\ call.out = "return"
               /\ call.result.kind = "stderr"
               /\ ~Removes(call.ops)
               /\ call.created \subseteq containers

\* C20: remove_container removes the live container whose name or id is
\* the identifier it is given: called with the name or with the id of a
\* container that is present, it removes that container and no other.
C20_RemovesByNameOrId ==
    (call.op = "remove_container" /\ ~call.fault /\ ~call.absent) =>
        /\ Cardinality(call.removed) = 1
        /\ \A c \in call.removed : call.target \in {c.name, c.id}
        /\ ~\E c \in containers : call.target \in {c.name, c.id}

(* --------------------------- order of the batch ------------------------ *)
\* The names an engine or filesystem call of profile cfg may carry.
NamesOf(cfg) == { cfg.image_tag, cfg.os_name, "dangling" }

\* C21: the profiles are processed one after the other in input order: the
\* index of the profile at work only moves to the next one, after the
\* cleanup of the profile before it, and every engine and filesystem call of
\* a step is made for the profile at that index of the input list.
C21_ProfilesInInputOrder ==
    [][ /\ idx' \in {idx, idx + 1}
        /\ idx' = idx + 1 => pc \in {"start", "cleanup"}
        /\ log' # log =>
               /\ idx \in 1..Len(config_list)
               /\ \A k \in DOMAIN log' : log'[k].arg \in NamesOf(config_list[idx]) ]_vars

C21_Witness ==
    /\ pc = "done"
    /\ clean
    /\ Len(config_list) = MaxProfiles
    /\ config_list[1] # config_list[MaxProfiles]
    /\ Len(ret) = MaxProfiles
    /\ Issued("prune")

(* ------------------------ build failure classes ------------------------ *)
\* C22: the build stage classifies its failures: a build error of the engine
\* is recorded with the engine's build log, an API or transport error of the
\* engine is returned as an error of another kind.
C22_BuildFailuresAreClassified ==
    BuildCalled =>
        /\ (call.result.kind = "stderr" /\ call.result.val[1] = "BuildError") =>
               call.result.val[2] = BuildException("BuildError").build_log
        /\ call.fault \in {"APIError", "Exception"} =>
               /\ call.out = "return"
               /\ call.result.kind = "stderr"
               /\ call.result.val[1] # "BuildError"

(* ------------------------- order of the run stage --------------------- *)
\* The engine calls of the run stage, in the order of the claim.
RunStageOrder == << "run", "wait", "logs_stdout", "logs_stderr", "rm_container" >>

\* C23: inside the run stage the engine calls are made in the order launch,
\* wait, read stdout, read stderr, and with clean remove container: no log is
\* read before wait has returned, and the container is not removed before
\* both logs have been read.
C23_RunStageOrder ==
    RunCalled =>
        /\ Len(call.ops) <= Len(RunStageOrder)
        /\ \A i \in DOMAIN call.ops : call.ops[i].op = RunStageOrder[i]
        /\ (\E i \in DOMAIN call.ops : call.ops[i].op = "rm_container") => call.clean
        /\ (\E i \in DOMAIN call.ops : call.ops[i].op = "logs_stdout") => Waited

C23_Witness ==
    /\ RunCalled
    /\ call.clean
    /\ call.result.kind = "ok"
    /\ Len(call.ops) = Len(RunStageOrder)

(* --------------------------- returned results -------------------------- *)
\* C24: in every result the pipeline returns, a successful container record
\* comes with a successful image record: no result holds a build error in
\* its image field and a successful run in its container field.
C24_ContainerRecordImpliesImageRecord ==
    pc = "done" =>
        \A i \in 1..Len(ret) : ret[i].container.kind = "ok" => ret[i].image.kind = "ok"

(* ----------------------- cleanup after failed stages ------------------- *)
CleanupCalls == Issued("rm_dockerfile") /\ Issued("rm_image") /\ Issued("prune")

\* C25: with clean, cleanup does not depend on the success of the stages:
\* whenever the three stages of a profile have returned, the removal of the
\* descriptor file, the removal of the image and the prune are called for
\* it, and no Dockerfile.<tag> of a processed profile remains.
C25_CleanupWhateverTheStages ==
    (clean /\ Finished) => CleanupCalls /\ LastCfg.image_tag \notin files

\* C25 (amended): ... the three removals are called for it, and its
\* Dockerfile.<tag> does not remain unless the removal of the file failed.
C25_CleanupWhateverTheStagesUnlessUnlinkFails ==
    (clean /\ Finished) =>
        /\ CleanupCalls
        /\ "rm_dockerfile" \notin reapErrs => LastCfg.image_tag \notin files

C25_Witness ==
    /\ clean
    /\ Finished
    /\ Last.dockerfile.kind = "ok"
    /\ Last.image.kind = "stderr"
    /\ Last.container.kind = "stderr"
    /\ CleanupCalls
    /\ LastCfg.image_tag \notin files

(* ------------------- containers of failed run stages ------------------ *)
\* C26: with clean, when the run stage fails after the container was created
\* (the launch succeeded, wait raised), no step of the pipeline removes that
\* container: it is on the engine after the step, and no later step takes a
\* container off the engine, so it is still there when the pipeline returns.
C26_ContainerOfFailedWaitIsLeft ==
    [][ /\ containers \subseteq containers'
        /\ (clean /\ pc = "run" /\ log'[Len(log')].op = "wait") =>
               \E c \in containers' \ containers :
                   c.name[1] = config_list[idx].image_tag ]_vars

C26_Witness ==
    /\ clean
    /\ pc = "done"
    /\ Len(ret) = 1
    /\ ret[1].container.kind = "stderr"
    /\ Issued("wait")
    /\ Issued("rm_image")
    /\ Issued("prune")
    /\ \E c \in containers : c.name[1] = config_list[1].image_tag

(* -------------------------- images of the cleanup ---------------------- *)
IsImageRemoval(o) == o.op = "rm_image"

\* The names given to remove_image for the profile at work, in call order.
RemovedImages ==
    LET r == SelectSeq(log, IsImageRemoval) IN [ k \in DOMAIN r |-> r[k].arg ]

ImageRemovalFailed == reapErrs \cap {"rm_image", "rm_base"} # {}

\* C27: the cleanup of a profile in run_config removes the image of the
\* profile's tag and the profile's base image (os_name); the cleanup of
\* test_container removes the image of the tag and leaves the base image; no
\* other image is named in a remove call of either pipeline.
C27_BaseImageRemovedByTheBatchOnly ==
    (clean /\ Finished) =>
        /\ entry = "run_config" =>
               /\ RemovedImages = << LastCfg.image_tag, LastCfg.os_name >>
               /\ ~ImageRemovalFailed =>
                      /\ LastCfg.image_tag \notin images
                      /\ LastCfg.os_name \notin images
        /\ entry = "test_container" =>
               /\ RemovedImages = << LastCfg.image_tag >>
               /\ ~ImageRemovalFailed => LastCfg.image_tag \notin images
               /\ LastCfg.os_name \in images

C27_Witness ==
    /\ clean
    /\ Finished
    /\ entry = "run_config"
    /\ ~ImageRemovalFailed
    /\ Last.image.kind = "ok"
    /\ RemovedImages = << LastCfg.image_tag, LastCfg.os_name >>
    /\ LastCfg.os_name \notin images

====
